---- MODULE Spec2Model ----
\* Model of the conversational code-generation workflow of
\* johnthomasdev/website-builder: agent.py (CodeAssistantAgent and its
\* LangGraph stage graph with a SQLite checkpointer), main.py (the /api/chat
\* and /api/clear handlers), llm_client.py and embeddings.py.
\*
\* Text is a sequence of tokens.  An optional value (Python None or a text) is
\* a record [isNone, text].  A path is a text whose tokens are its components.
EXTENDS Integers, Sequences, FiniteSets, TLC

\* ---------------------------------------------------------------- bounds
Sessions == {"A", "B"}
\* The request slots of the server, in the order they are taken.
RequestOrder == <<"r1", "r2">>
Requests == {RequestOrder[i] : i \in 1..Len(RequestOrder)}
\* The number of chat requests a behaviour accepts.
MaxRuns == 3
\* A request is accepted while another is being served only among the first
\* MaxOverlap requests.
MaxOverlap == 2

\* Chat requests served while the agent is also initialized and shut down.
MaxAgentRuns == 1

\* Connections to the state database that are open at the same time.
MaxConns == 3

\* ------------------------------------------------------- optional values
None == [isNone |-> TRUE, text |-> <<>>]

Some(t) == [isNone |-> FALSE, text |-> t]

\* Python truthiness of an Optional[str]: None and "" are falsy.
Truthy(v) == ~v.isNone /\ v.text # <<>>

\* ------------------------------------------------------------------ text
WS == {" ", "\n"}

\* The Markdown code fences _generate_code removes: three backticks, optionally
\* tagged html, css or javascript.
Fences == {"fence:html", "fence:css", "fence:javascript", "fence"}

RECURSIVE LStrip(_)
LStrip(t) == IF t # <<>> /\ Head(t) \in WS THEN LStrip(Tail(t)) ELSE t

RECURSIVE RStrip(_)
RStrip(t) == IF t # <<>> /\ t[Len(t)] \in WS THEN RStrip(SubSeq(t, 1, Len(t) - 1)) ELSE t

Strip(t) == RStrip(LStrip(t))

IsNotFence(tok) == tok \notin Fences

RemoveFences(t) == SelectSeq(t, IsNotFence)

\* The clean-up _generate_code applies of the generated text.
CleanCode(raw) == Strip(RemoveFences(Strip(raw)))

RECURSIVE Join(_)
Join(docs) ==
    IF docs = <<>> THEN <<>>
    ELSE IF Len(docs) = 1 THEN Head(docs)
    ELSE Head(docs) \o <<"\n">> \o Join(Tail(docs))

\* The message a client of session s submits.
Messages(s) == IF s = "A" THEN {"msgA"} ELSE {"msgB"}

\* The body of a document generated for a request of session s.
Body == [s \in Sessions |-> IF s = "A" THEN "bodyA" ELSE "bodyB"]

\* What the provider may answer to a prompt of session s (before strip()).
ProviderTexts(s) ==
    { <<Body[s]>>,
      <<"fence:html", "\n", Body[s], "\n", "fence", "\n">>,
      <<" ", "fence", "\n", "fence">>,
      <<>> }

\* ------------------------------------------------------------ file system
FileNames == {"index.html", "styles.css", "app.js"}

WorkspaceDir == <<"generated_apps">>

PathJoin(a, b) == a \o b

Basename(p) == <<p[Len(p)]>>

FixedProjectName == <<"current_project">>

\* ------------------------------------------------------------- the state
VARIABLES
    store,        \* session -> latest checkpoint of the thread (or none)
    projectDir,   \* does generated_apps/current_project exist
    files,        \* file name -> text, for the files in that directory
    llm_model,    \* LLMClient.model is set
    runs,         \* request slot -> the process_message call it is serving
    started,      \* the number of chat requests accepted so far
    cleared,      \* the sessions whose persisted state a clear call was asked to
                  \* delete and whose thread no checkpoint was written to since
    agent,        \* the agent's embedding_manager, memory_cm, memory and graph
    conns         \* the open connections to langgraph_state.sqlite

vars == <<store, projectDir, files, llm_model, runs, started, cleared, agent, conns>>

EmptyChannels ==
    [messages |-> <<>>, thread_id |-> None, current_project_path |-> None,
     generated_html |-> None, generated_css |-> None, generated_js |-> None,
     project_name |-> None, retrieved_context |-> None]

NoCheckpoint == [exists |-> FALSE, values |-> EmptyChannels, next |-> "none"]

\* A checkpoint of a thread: the channel values and the node scheduled next
\* ("END" in the checkpoint that closes a run).
Checkpoint(values, next) == [exists |-> TRUE, values |-> values, next |-> next]

HumanMessage(content) == [role |-> "user", content |-> content]

AIMessage(content) == [role |-> "assistant", content |-> content]

\* A part of the state that a prompt does not interpolate.
NotInPrompt == [isNone |-> TRUE, text |-> <<"not in prompt">>]

\* No prompt: the node that ran last sent nothing to the Generation Client or
\* the Context Retriever.
NoPrompt ==
    [node |-> "none", user_message |-> <<>>, existing |-> NotInPrompt,
     html |-> NotInPrompt, css |-> NotInPrompt, context |-> NotInPrompt]

NoResponse == [status |-> "none", response |-> <<>>, project_name |-> None, project_path |-> None]

IdleRun ==
    [pc |-> "idle", sess |-> "none", state |-> EmptyChannels, pre |-> NoCheckpoint,
     executed |-> {}, route |-> "none", dirAtRouter |-> FALSE, loadMissing |-> FALSE,
     final_code |-> <<>>, response |-> NoResponse, stale |-> FALSE,
     order |-> <<>>, calls |-> 0, provider_calls |-> 0, prompt |-> NoPrompt,
     checkpointer |-> 0]

\* No compiled graph (self.graph is None).
NoGraph == [compiled |-> FALSE, id |-> 0, checkpointer |-> 0]

\* A compiled graph: the object and the checkpointer it was compiled with (a
\* connection, or 0 for None).
Compiled(id, checkpointer) == [compiled |-> TRUE, id |-> id, checkpointer |-> checkpointer]

\* The object a compile returns: one that is not the graph the agent holds.
NewGraph(a) == IF a.graph.compiled /\ a.graph.id = 1 THEN 2 ELSE 1

\* The agent after __init__: no Context Retriever, no checkpointer, no graph.
\* memory_cm and memory name a connection to langgraph_state.sqlite, 0 for None.
Constructed ==
    [embedding_manager |-> FALSE, memory_cm |-> 0, memory |-> 0, graph |-> NoGraph]

\* A build_graph that compiles the graph again whenever it is called.
build_graph_again(a) == [a EXCEPT !.graph = Compiled(NewGraph(a), a.memory)]

\* build_graph: nothing when the agent holds a graph; otherwise the graph is
\* compiled with the checkpointer the agent holds at that moment.
build_graph(a) ==
    IF a.graph.compiled THEN a ELSE [a EXCEPT !.graph = Compiled(NewGraph(a), a.memory)]

\* The connection a new AsyncSqliteSaver gets: one that nothing refers to as
\* open or as the checkpointer of the compiled graph.
NewConn(a, open) ==
    LET used == open \cup (IF a.graph.compiled THEN {a.graph.checkpointer} ELSE {})
    IN CHOOSE c \in 1..(MaxConns + 1) : c \notin used /\ \A d \in 1..(c - 1) : d \in used

\* CodeAssistantAgent.initialize apart from the Generation Client: the Context
\* Retriever is stored, a new checkpointer is opened and build_graph is called.
AgentInitialize(a, open, embedding_manager) ==
    LET c == NewConn(a, open)
    IN [agent |-> build_graph([a EXCEPT !.embedding_manager = embedding_manager,
                                        !.memory_cm = c, !.memory = c]),
        conns |-> open \cup {c}]

\* CodeAssistantAgent.shutdown: the checkpointer's context is left, which
\* closes its connection (nothing the second time), and the graph is dropped.
AgentShutdown(a, open) ==
    [agent |-> [a EXCEPT !.graph = NoGraph],
     conns |-> IF a.memory_cm # 0 THEN open \ {a.memory_cm} ELSE open]

\* An initialize that leaves a model set even when configuring raised.
LLMInitializeKeepsModel(raises) == TRUE

\* LLMClient.initialize: the model is set when configuring the provider goes
\* through and None when anything in it raises; the exception is swallowed.
LLMInitialize(raises) == ~raises

\* What the model keeps of the requests, the store and the disk at start-up.
NothingYet ==
    /\ store = [s \in Sessions |-> NoCheckpoint]
    /\ projectDir = FALSE
    /\ files = <<>>
    /\ runs = [r \in Requests |-> IdleRun]
    /\ started = 0
    /\ cleared = {}

\* The server after the lifespan start-up: the agent is initialized with the
\* Context Retriever; the Generation Client's initialize went through or not.
Init ==
    /\ NothingYet
    /\ \E raises \in BOOLEAN : llm_model = LLMInitialize(raises)
    /\ agent = AgentInitialize(Constructed, {}, TRUE).agent
    /\ conns = AgentInitialize(Constructed, {}, TRUE).conns

\* The agent used on its own: initialized with or without a Context Retriever.
InitAgent ==
    /\ NothingYet
    /\ \E raises \in BOOLEAN : llm_model = LLMInitialize(raises)
    /\ \E embedding_manager \in BOOLEAN :
          /\ agent = AgentInitialize(Constructed, {}, embedding_manager).agent
          /\ conns = AgentInitialize(Constructed, {}, embedding_manager).conns

\* The agent and the Generation Client after construction, before initialize.
InitConstructed ==
    /\ NothingYet
    /\ llm_model = FALSE
    /\ agent = Constructed
    /\ conns = {}


\* ------------------------------------------------- the graph and its state
\* A reducer that keeps only the new messages.
add_messages_overwrite(left, right) == right

\* The reducer of the messages channel: new messages get fresh ids, so they are
\* appended to the persisted ones.
add_messages(left, right) == left \o right

\* A node's partial update merged into the channels: messages through its
\* reducer, every other key overwritten.
ApplyUpdate(state, upd) ==
    [k \in DOMAIN state |->
        IF k \in DOMAIN upd
        THEN IF k = "messages" THEN add_messages(state[k], upd[k]) ELSE upd[k]
        ELSE state[k]]

\* The conditional edge out of the router.
RouterEdge(state) ==
    IF Truthy(state.current_project_path)
    THEN "load_existing_project"
    ELSE "generate_html_from_scratch"

\* A graph whose edge out of edit_css is wired to the from-scratch JS node.
EdgeMiswired(node, state) ==
    CASE node = "router" -> RouterEdge(state)
      [] node = "generate_html_from_scratch" -> "generate_css_from_scratch"
      [] node = "generate_css_from_scratch" -> "generate_js_from_scratch"
      [] node = "generate_js_from_scratch" -> "assemble_and_create"
      [] node = "load_existing_project" -> "retrieve_context"
      [] node = "retrieve_context" -> "edit_html"
      [] node = "edit_html" -> "edit_css"
      [] node = "edit_css" -> "generate_js_from_scratch"
      [] node = "edit_js" -> "assemble_and_create"
      [] node = "assemble_and_create" -> "END"

\* The edges of the compiled graph.
Edge(node, state) ==
    CASE node = "router" -> RouterEdge(state)
      [] node = "generate_html_from_scratch" -> "generate_css_from_scratch"
      [] node = "generate_css_from_scratch" -> "generate_js_from_scratch"
      [] node = "generate_js_from_scratch" -> "assemble_and_create"
      [] node = "load_existing_project" -> "retrieve_context"
      [] node = "retrieve_context" -> "edit_html"
      [] node = "edit_html" -> "edit_css"
      [] node = "edit_css" -> "edit_js"
      [] node = "edit_js" -> "assemble_and_create"
      [] node = "assemble_and_create" -> "END"

CreateNodes ==
    {"generate_html_from_scratch", "generate_css_from_scratch", "generate_js_from_scratch"}

EditNodes ==
    {"load_existing_project", "retrieve_context", "edit_html", "edit_css", "edit_js"}

\* A response built from the first message of the final state.
ResponseOfFirstMessage(final_state) ==
    LET last_message == final_state.messages[1]
    IN [status |-> "ok",
        response |-> IF last_message.role = "assistant"
                     THEN last_message.content ELSE <<"I'm ready.">>,
        project_name |-> final_state.project_name,
        project_path |-> final_state.current_project_path]

\* What process_message returns from the final state of the graph.
Response(final_state) ==
    LET last_message == final_state.messages[Len(final_state.messages)]
    IN [status |-> "ok",
        response |-> IF last_message.role = "assistant"
                     THEN last_message.content ELSE <<"I'm ready.">>,
        project_name |-> final_state.project_name,
        project_path |-> final_state.current_project_path]

\* What the chat handler answers when process_message raises (HTTP 500).
ErrorResponse(detail) ==
    [status |-> "error", response |-> <<detail>>, project_name |-> None, project_path |-> None]

\* The request is over with an exception raised in (or right after) node.
Raised(run, node, detail) ==
    [run EXCEPT !.pc = "error", !.executed = @ \cup {node}, !.order = Append(@, node),
                !.prompt = NoPrompt, !.response = ErrorResponse(detail)]

\* The end of a super-step: the node's update is merged into the channels and
\* the checkpointer writes the new checkpoint of the thread; then the edge is
\* followed.  A request whose graph holds a checkpointer that /api/clear has
\* closed gets the store's exception instead, and a graph compiled without a
\* checkpointer writes no checkpoint.
SuperStep(r, node, run, upd) ==
    LET newstate == ApplyUpdate(run.state, upd)
        nxt == Edge(node, newstate)
    IN IF run.stale
       THEN /\ runs' = [runs EXCEPT ![r] = Raised(run, node, "StoreError")]
            /\ UNCHANGED <<store, cleared>>
       ELSE /\ IF run.checkpointer = 0
               THEN UNCHANGED <<store, cleared>>
               ELSE /\ store' = [store EXCEPT ![run.sess] = Checkpoint(newstate, nxt)]
                    /\ cleared' = cleared \ {run.sess}
            /\ runs' = [runs EXCEPT ![r] =
                    [run EXCEPT !.state = newstate,
                                !.executed = @ \cup {node},
                                !.order = Append(@, node),
                                !.pc = IF nxt = "END" THEN "returned" ELSE nxt,
                                !.response = IF nxt = "END" THEN Response(newstate) ELSE @]]

\* ---------------------------------------------------------- the operations
\* The first request slot that serves no request.
FirstIdle ==
    LET idle == {i \in 1..Len(RequestOrder) : runs[RequestOrder[i]].pc = "idle"}
    IN IF idle = {} THEN "none"
       ELSE RequestOrder[CHOOSE i \in idle : \A j \in idle : i <= j]

\* process_message up to the first suspension inside the graph. The graph is
\* built if the agent holds none. With an open checkpointer the thread's
\* latest checkpoint is loaded (fresh channels if there is none), the input is
\* merged into it and checkpointed, and the router is scheduled; with a closed
\* one the load raises; without one the run starts from fresh channels and
\* nothing is persisted.
process_message(r, s, m) ==
    /\ r = FirstIdle
    /\ started < MaxRuns
    /\ (\E q \in Requests : runs[q].pc # "idle") => started < MaxOverlap
    /\ started' = started + 1
    /\ agent' = build_graph(agent)
    /\ LET input == [messages |-> <<HumanMessage(<<m>>)>>, thread_id |-> Some(<<s>>)]
           checkpointer == build_graph(agent).graph.checkpointer
           run == [IdleRun EXCEPT !.sess = s, !.checkpointer = checkpointer]
       IN CASE checkpointer = 0 ->
                 /\ runs' = [runs EXCEPT ![r] =
                         [run EXCEPT !.pc = "router",
                                     !.state = ApplyUpdate(EmptyChannels, input)]]
                 /\ UNCHANGED <<store, cleared>>
            [] checkpointer # 0 /\ checkpointer \notin conns ->
                 /\ runs' = [runs EXCEPT ![r] =
                         [run EXCEPT !.pc = "error", !.stale = TRUE,
                                     !.response = ErrorResponse("StoreError")]]
                 /\ UNCHANGED <<store, cleared>>
            [] checkpointer \in conns ->
                 LET st == ApplyUpdate(store[s].values, input)
                 IN /\ store' = [store EXCEPT ![s] = Checkpoint(st, "router")]
                    /\ cleared' = cleared \ {s}
                    /\ runs' = [runs EXCEPT ![r] =
                            [run EXCEPT !.pc = "router", !.state = st, !.pre = store[s]]]
    /\ UNCHANGED <<projectDir, files, llm_model, conns>>

router_node(r) ==
    /\ runs[r].pc = "router"
    /\ LET run == [runs[r] EXCEPT !.route = RouterEdge(runs[r].state),
                                  !.dirAtRouter = projectDir]
       IN SuperStep(r, "router", run, <<>>)
    /\ UNCHANGED <<projectDir, files, llm_model, started, agent, conns>>

\* LLMClient.generate followed by the clean-up of _generate_code.
_generate_code(raw) == CleanCode(Strip(raw))

\* The latest user message, as every node reads it.
user_message(state) == state.messages[Len(state.messages)].content

\* A prompt whose drafts come from the snapshot the run loaded.
PromptFromLoaded(run, node) ==
    LET state == run.state
        old == run.pre.values
        base == [NoPrompt EXCEPT !.node = node, !.user_message = user_message(state)]
    IN CASE node = "generate_html_from_scratch" -> base
         [] node = "generate_css_from_scratch" ->
                [base EXCEPT !.html = old.generated_html]
         [] node = "generate_js_from_scratch" ->
                [base EXCEPT !.html = old.generated_html, !.css = old.generated_css]
         [] node = "edit_html" -> [base EXCEPT !.existing = old.generated_html]
         [] node = "edit_css" ->
                [base EXCEPT !.existing = old.generated_css, !.html = old.generated_html,
                             !.context = state.retrieved_context]
         [] node = "edit_js" ->
                [base EXCEPT !.existing = old.generated_js, !.html = old.generated_html,
                             !.css = old.generated_css,
                             !.context = state.retrieved_context]

\* The parts of the state that the prompt of a generation or edit node
\* interpolates: the latest user message and, by node, the document to modify,
\* the current HTML and CSS drafts and the retrieved context.
Prompt(run, node) ==
    LET state == run.state
        base == [NoPrompt EXCEPT !.node = node, !.user_message = user_message(state)]
    IN CASE node = "generate_html_from_scratch" -> base
         [] node = "generate_css_from_scratch" ->
                [base EXCEPT !.html = state.generated_html]
         [] node = "generate_js_from_scratch" ->
                [base EXCEPT !.html = state.generated_html, !.css = state.generated_css]
         [] node = "edit_html" -> [base EXCEPT !.existing = state.generated_html]
         [] node = "edit_css" ->
                [base EXCEPT !.existing = state.generated_css, !.html = state.generated_html,
                             !.context = state.retrieved_context]
         [] node = "edit_js" ->
                [base EXCEPT !.existing = state.generated_js, !.html = state.generated_html,
                             !.css = state.generated_css,
                             !.context = state.retrieved_context]

\* A generation or edit node that saves its draft into the project directory
\* as soon as the provider has answered.
GenerationNodeSavesDraft(r, node, key) ==
    /\ runs[r].pc = node
    /\ LET run == [runs[r] EXCEPT !.prompt = Prompt(runs[r], node), !.calls = @ + 1,
                                  !.provider_calls = IF llm_model THEN @ + 1 ELSE @]
       IN \/ /\ llm_model
             /\ \E raw \in ProviderTexts(run.sess) :
                   /\ SuperStep(r, node, run, (key :> Some(_generate_code(raw))))
                   /\ projectDir' = TRUE
                   /\ LET file == CASE key = "generated_html" -> "index.html"
                                     [] key = "generated_css" -> "styles.css"
                                     [] key = "generated_js" -> "app.js"
                      IN files' = [f \in DOMAIN files \cup {file} |->
                                      IF f = file THEN _generate_code(raw) ELSE files[f]]
          \/ /\ runs' = [runs EXCEPT ![r] =
                     Raised(run, node,
                            IF llm_model THEN "GenerationError" ELSE "ModelNotLoadedError")]
             /\ UNCHANGED <<store, cleared, projectDir, files>>
    /\ UNCHANGED <<llm_model, started, agent, conns>>

\* A generation or edit node: one call of the Generation Client, no retry.
\* LLMClient.generate raises at once when no model is loaded; otherwise it
\* calls the provider, which answers or raises.
GenerationNode(r, node, key) ==
    /\ runs[r].pc = node
    /\ LET run == [runs[r] EXCEPT !.prompt = Prompt(runs[r], node), !.calls = @ + 1,
                                  !.provider_calls = IF llm_model THEN @ + 1 ELSE @]
       IN \/ /\ llm_model
             /\ \E raw \in ProviderTexts(run.sess) :
                   SuperStep(r, node, run, (key :> Some(_generate_code(raw))))
          \/ /\ runs' = [runs EXCEPT ![r] =
                     Raised(run, node,
                            IF llm_model THEN "GenerationError" ELSE "ModelNotLoadedError")]
             /\ UNCHANGED <<store, cleared>>
    /\ UNCHANGED <<projectDir, files, llm_model, started, agent, conns>>

generate_html_from_scratch_node(r) ==
    GenerationNode(r, "generate_html_from_scratch", "generated_html")

generate_css_from_scratch_node(r) ==
    GenerationNode(r, "generate_css_from_scratch", "generated_css")

generate_js_from_scratch_node(r) ==
    GenerationNode(r, "generate_js_from_scratch", "generated_js")

edit_html_node(r) == GenerationNode(r, "edit_html", "generated_html")

edit_css_node(r) == GenerationNode(r, "edit_css", "generated_css")

edit_js_node(r) == GenerationNode(r, "edit_js", "generated_js")

IsDir(path) == path = PathJoin(WorkspaceDir, FixedProjectName) /\ projectDir

read_file_content(file_name) ==
    IF file_name \in DOMAIN files
    THEN files[file_name]
    ELSE <<"// ", file_name, " not found">>

\* A load that clears the path of a missing project but keeps the drafts.
LoadUpdateKeepsDrafts(state) ==
    LET project_path == state.current_project_path
    IN IF ~Truthy(project_path) \/ ~IsDir(project_path.text)
       THEN [current_project_path |-> None]
       ELSE [project_name |-> Some(Basename(project_path.text)),
             generated_html |-> Some(read_file_content("index.html")),
             generated_css |-> Some(read_file_content("styles.css")),
             generated_js |-> Some(read_file_content("app.js"))]

LoadUpdate(state) ==
    LET project_path == state.current_project_path
    IN IF ~Truthy(project_path) \/ ~IsDir(project_path.text)
       THEN [current_project_path |-> None, generated_html |-> None,
             generated_css |-> None, generated_js |-> None]
       ELSE [project_name |-> Some(Basename(project_path.text)),
             generated_html |-> Some(read_file_content("index.html")),
             generated_css |-> Some(read_file_content("styles.css")),
             generated_js |-> Some(read_file_content("app.js"))]

load_existing_project_node(r) ==
    /\ runs[r].pc = "load_existing_project"
    /\ LET path == runs[r].state.current_project_path
           run == [runs[r] EXCEPT !.loadMissing = ~Truthy(path) \/ ~IsDir(path.text)]
       IN SuperStep(r, "load_existing_project", run, LoadUpdate(runs[r].state))
    /\ UNCHANGED <<projectDir, files, llm_model, started, agent, conns>>

\* The documents of the collection, most similar first (the indexed code).
Collection == << <<"snippet1">>, <<"snippet2">>, <<"snippet3">>, <<"snippet4">> >>

\* A retrieve_similar that returns the whole collection.
retrieve_similar_all(n_results) == { <<>>, Collection }

\* EmbeddingManager.retrieve_similar: the n_results most similar documents of
\* the collection, or none when the query raises.
retrieve_similar(n_results) ==
    { <<>>, SubSeq(Collection, 1, IF Len(Collection) < n_results THEN Len(Collection) ELSE n_results) }

\* retrieve_context_node: without a Context Retriever the context is empty;
\* otherwise the latest user message is the query and the documents found are
\* joined with newlines.
retrieve_context_node(r) ==
    /\ runs[r].pc = "retrieve_context"
    /\ IF ~agent.embedding_manager
       THEN SuperStep(r, "retrieve_context", runs[r], [retrieved_context |-> Some(<<>>)])
       ELSE LET query == [NoPrompt EXCEPT !.node = "retrieve_context",
                                         !.user_message = user_message(runs[r].state)]
                run == [runs[r] EXCEPT !.prompt = query]
            IN \E retrieved_docs \in retrieve_similar(3) :
                  SuperStep(r, "retrieve_context", run,
                            [retrieved_context |-> Some(Join(retrieved_docs))])
    /\ UNCHANGED <<projectDir, files, llm_model, started, agent, conns>>

Placeholder ==
    [f \in FileNames |->
        CASE f = "index.html" -> <<"<!-- HTML generation failed -->">>
          [] f = "styles.css" -> <<"/* CSS generation failed */">>
          [] f = "app.js" -> <<"// JavaScript generation failed">>]

DraftKey ==
    [f \in FileNames |->
        CASE f = "index.html" -> "generated_html"
          [] f = "styles.css" -> "generated_css"
          [] f = "app.js" -> "generated_js"]

\* A final_code that substitutes the placeholder for a None draft only.
FinalCodeNoneOnly(state) ==
    [f \in FileNames |->
        IF ~state[DraftKey[f]].isNone THEN state[DraftKey[f]].text ELSE Placeholder[f]]

\* final_code of assemble_and_create_node: draft or placeholder.
FinalCode(state) ==
    [f \in FileNames |->
        IF Truthy(state[DraftKey[f]]) THEN state[DraftKey[f]].text ELSE Placeholder[f]]

AppliedMsg == <<"I have applied the updates to the project.">>

CreatedMsg == <<"I've created a new project. You can see it in the preview.">>

response_msg(state) ==
    IF Truthy(state.current_project_path) THEN AppliedMsg ELSE CreatedMsg

\* An assemble stage that suspends after each file it writes: one step per
\* file, in the order of final_code, and the state update after the third.
assemble_file_by_file(r) ==
    /\ runs[r].pc = "assemble_and_create"
    /\ LET state == runs[r].state
           final_code == FinalCode(state)
           written == DOMAIN runs[r].final_code
           project_name == FixedProjectName
           project_path == PathJoin(WorkspaceDir, project_name)
       IN IF written # FileNames
          THEN LET f == IF "index.html" \notin written THEN "index.html"
                        ELSE IF "styles.css" \notin written THEN "styles.css"
                        ELSE "app.js"
               IN /\ projectDir' = TRUE
                  /\ files' = [g \in DOMAIN files \cup {f} |->
                                  IF g = f THEN final_code[f] ELSE files[g]]
                  /\ runs' = [runs EXCEPT ![r].final_code =
                                  [g \in written \cup {f} |-> final_code[g]]]
                  /\ UNCHANGED <<store, cleared>>
          ELSE /\ UNCHANGED <<projectDir, files>>
               /\ SuperStep(r, "assemble_and_create",
                            [runs[r] EXCEPT !.prompt = NoPrompt],
                            [messages |-> <<AIMessage(response_msg(state))>>,
                             current_project_path |-> Some(project_path),
                             project_name |-> Some(project_name)])
    /\ UNCHANGED <<llm_model, started, agent, conns>>

\* An assemble stage that names the project after the session.
assemble_per_session(r) ==
    /\ runs[r].pc = "assemble_and_create"
    /\ LET state == runs[r].state
           final_code == FinalCode(state)
           project_name == state.thread_id.text
           project_path == PathJoin(WorkspaceDir, project_name)
           run == [runs[r] EXCEPT !.final_code = final_code, !.prompt = NoPrompt]
       IN /\ projectDir' = TRUE
          /\ files' = [f \in DOMAIN files \cup DOMAIN final_code |->
                          IF f \in DOMAIN final_code THEN final_code[f] ELSE files[f]]
          /\ SuperStep(r, "assemble_and_create", run,
                       [messages |-> <<AIMessage(response_msg(state))>>,
                        current_project_path |-> Some(project_path),
                        project_name |-> Some(project_name)])
    /\ UNCHANGED <<llm_model, started, agent, conns>>

assemble_and_create_node(r) ==
    /\ runs[r].pc = "assemble_and_create"
    /\ LET state == runs[r].state
           final_code == FinalCode(state)
           project_name == FixedProjectName
           project_path == PathJoin(WorkspaceDir, project_name)
           run == [runs[r] EXCEPT !.final_code = final_code, !.prompt = NoPrompt]
       IN /\ projectDir' = TRUE
          /\ files' = [f \in DOMAIN files \cup DOMAIN final_code |->
                          IF f \in DOMAIN final_code THEN final_code[f] ELSE files[f]]
          /\ SuperStep(r, "assemble_and_create", run,
                       [messages |-> <<AIMessage(response_msg(state))>>,
                        current_project_path |-> Some(project_path),
                        project_name |-> Some(project_name)])
    /\ UNCHANGED <<llm_model, started, agent, conns>>

\* The chat handler hands the payload (or the HTTP 500) to the client.
chat(r) ==
    /\ runs[r].pc \in {"returned", "error"}
    /\ runs' = [runs EXCEPT ![r] = IdleRun]
    /\ UNCHANGED <<store, projectDir, files, llm_model, started, cleared, agent, conns>>

\* The tables the SQLite checkpointer creates in langgraph_state.sqlite.
SaverTables == {"checkpoints", "writes"}

\* DELETE FROM <table> WHERE thread_id = <session_id>; sqlite raises
\* "no such table" for a table the database does not have.
DeleteThread(db, table, session_id) ==
    IF table \in SaverTables
    THEN [raised |-> FALSE, store |-> [db EXCEPT ![session_id] = NoCheckpoint]]
    ELSE [raised |-> TRUE, store |-> db]

\* A clear_session_state without its except clause.
ClearSessionStateUncaught(a, db, session_id) ==
    IF a.memory = 0
    THEN [raised |-> FALSE, store |-> db]
    ELSE DeleteThread(db, "threads", session_id)

\* What clear_session_state does to a state database: nothing when the agent
\* has no checkpointer; otherwise the statement runs on the table "threads",
\* and an exception is caught and printed.
ClearSessionState(a, db, session_id) ==
    IF a.memory = 0
    THEN [raised |-> FALSE, store |-> db]
    ELSE [raised |-> FALSE, store |-> DeleteThread(db, "threads", session_id).store]

clear_session_state(session_id) ==
    /\ store' = ClearSessionState(agent, store, session_id).store
    /\ cleared' = IF store[session_id].exists THEN cleared \cup {session_id} ELSE cleared
    /\ UNCHANGED <<projectDir, files, llm_model, runs, started, agent, conns>>

InFlight(run) == run.pc \notin {"idle", "returned", "error"}

\* /api/clear: the agent is shut down (its checkpointer closed), the state
\* database files are removed, the agent is initialized again (the Generation
\* Client's initialize may succeed or fail), and generated_apps is removed and
\* created empty.  Requests in flight keep the graph compiled with the closed
\* checkpointer.
clear_session(session_id) ==
    /\ store' = [s \in Sessions |-> NoCheckpoint]
    /\ cleared' = IF store[session_id].exists THEN cleared \cup {session_id} ELSE cleared
    /\ \E raises \in BOOLEAN : llm_model' = LLMInitialize(raises)
    /\ LET down == AgentShutdown(agent, conns)
           up == AgentInitialize(down.agent, down.conns, agent.embedding_manager)
       IN agent' = up.agent /\ conns' = up.conns
    /\ projectDir' = FALSE
    /\ files' = <<>>
    /\ runs' = [r \in Requests |->
                   IF InFlight(runs[r]) THEN [runs[r] EXCEPT !.stale = TRUE] ELSE runs[r]]
    /\ UNCHANGED started

\* The project directory is removed from outside the program (the case
\* load_existing_project_node tests for).
ProjectDirRemoved ==
    /\ projectDir
    /\ projectDir' = FALSE
    /\ files' = <<>>
    /\ UNCHANGED <<store, llm_model, runs, started, cleared, agent, conns>>

\* CodeAssistantAgent.initialize, with LLMClient.initialize in it.
initialize(embedding_manager) ==
    /\ NewConn(agent, conns) <= MaxConns
    /\ \E raises \in BOOLEAN : llm_model' = LLMInitialize(raises)
    /\ agent' = AgentInitialize(agent, conns, embedding_manager).agent
    /\ conns' = AgentInitialize(agent, conns, embedding_manager).conns
    /\ UNCHANGED <<store, projectDir, files, runs, started, cleared>>

\* CodeAssistantAgent.shutdown; the requests in flight on a graph compiled
\* with the checkpointer it closes keep that graph.
shutdown ==
    /\ agent' = AgentShutdown(agent, conns).agent
    /\ conns' = AgentShutdown(agent, conns).conns
    /\ runs' = [r \in Requests |->
                   IF /\ InFlight(runs[r])
                      /\ runs[r].checkpointer = agent.memory_cm
                      /\ agent.memory_cm \in conns
                   THEN [runs[r] EXCEPT !.stale = TRUE] ELSE runs[r]]
    /\ UNCHANGED <<store, projectDir, files, llm_model, started, cleared>>

\* build_graph called on its own.
build_graph_call ==
    /\ agent' = build_graph(agent)
    /\ UNCHANGED <<store, projectDir, files, llm_model, runs, started, cleared, conns>>

\* The steps of the chat requests.
ChatSteps ==
    \/ \E r \in Requests, s \in Sessions : \E m \in Messages(s) : process_message(r, s, m)
    \/ \E r \in Requests : router_node(r)
    \/ \E r \in Requests : generate_html_from_scratch_node(r)
    \/ \E r \in Requests : generate_css_from_scratch_node(r)
    \/ \E r \in Requests : generate_js_from_scratch_node(r)
    \/ \E r \in Requests : load_existing_project_node(r)
    \/ \E r \in Requests : retrieve_context_node(r)
    \/ \E r \in Requests : edit_html_node(r)
    \/ \E r \in Requests : edit_css_node(r)
    \/ \E r \in Requests : edit_js_node(r)
    \/ \E r \in Requests : assemble_and_create_node(r)
    \/ \E r \in Requests : chat(r)

Next ==
    \/ ChatSteps
    \/ \E s \in Sessions : clear_session(s)
    \/ ProjectDirRemoved

\* The server: main.py calls process_message (from /api/chat) and /api/clear.
Spec == Init /\ [][Next]_vars

\* The agent called directly: process_message and clear_session_state.
NextAgent ==
    \/ ChatSteps
    \/ \E s \in Sessions : clear_session_state(s)
    \/ ProjectDirRemoved

SpecAgent == InitAgent /\ [][NextAgent]_vars

\* The life cycle of the agent: initialize, shutdown and build_graph called
\* in any order on the agent as constructed.
NextLifecycle ==
    \/ \E embedding_manager \in BOOLEAN : initialize(embedding_manager)
    \/ shutdown
    \/ build_graph_call

SpecLifecycle == InitConstructed /\ [][NextLifecycle]_vars

\* The agent as a whole: initialize, shutdown, build_graph, process_message
\* and clear_session_state called in any order on the agent as constructed,
\* with at most MaxAgentRuns chat requests.
NextAgentCalls ==
    \/ NextLifecycle
    \/ ChatSteps /\ started' <= MaxAgentRuns
    \/ \E s \in Sessions : clear_session_state(s)

SpecAgentCalls == InitConstructed /\ [][NextAgentCalls]_vars

\* ------------------------------------------------------------ the claims
Active == {r \in Requests : runs[r].pc # "idle"}

PathBefore(r) == runs[r].pre.values.current_project_path

\* C1 as stated: the router leaves toward load_project if and only if the
\* project path is set and the project directory exists at that moment, and
\* toward create_html in every other case.
C1_RouterChecksDirectory ==
    \A r \in Active :
        runs[r].route # "none" =>
            /\ runs[r].route = "load_existing_project"
                  <=> (Truthy(PathBefore(r)) /\ runs[r].dirAtRouter)
            /\ runs[r].route # "load_existing_project"
                  => runs[r].route = "generate_html_from_scratch"

\* C2: a run never executes both a create stage and an edit-path stage, and a
\* run that reaches assemble has executed all stages of exactly one path.
C2_ExactlyOnePath ==
    \A r \in Active :
        LET ex == runs[r].executed
        IN /\ ~(ex \cap CreateNodes # {} /\ ex \cap EditNodes # {})
           /\ (runs[r].pc = "assemble_and_create" \/ "assemble_and_create" \in ex)
                 => \/ CreateNodes \subseteq ex /\ ex \cap EditNodes = {}
                    \/ EditNodes \subseteq ex /\ ex \cap CreateNodes = {}

\* C2 witness: a run has gone through the five edit-path stages and assemble.
C2_Witness ==
    \E r \in Active :
        /\ runs[r].pc = "returned"
        /\ runs[r].executed = {"router", "assemble_and_create"} \cup EditNodes

\* C3 as stated: when a stage of a run raises, the session's persisted snapshot
\* is the one from before the run.
C3_AbortPersistsNothing ==
    \A r \in Active :
        runs[r].pc = "error" => store[runs[r].sess] = runs[r].pre

Tokens(text) == {text[i] : i \in 1..Len(text)}

\* The tokens that come from the messages of sessions other than s.
Foreign(s) ==
    {Body[t] : t \in Sessions \ {s}} \cup UNION {Messages(t) : t \in Sessions \ {s}}

OwnChannels(s, values) ==
    /\ \A k \in {"generated_html", "generated_css", "generated_js"} :
          Tokens(values[k].text) \cap Foreign(s) = {}
    /\ \A i \in 1..Len(values.messages) :
          Tokens(values.messages[i].content) \cap Foreign(s) = {}
    /\ values.thread_id \in {None, Some(<<s>>)}

\* C4 as stated: the turns and drafts a session persists, and those a run of
\* the session observes, hold nothing that comes from another session.
C4_SessionIsolation ==
    /\ \A s \in Sessions : OwnChannels(s, store[s].values)
    /\ \A r \in Active : OwnChannels(runs[r].sess, runs[r].state)

\* C5 as stated: runs of one session are serialized, so while a run is in
\* flight the session's persisted snapshot is the one this run loaded or last
\* wrote, never one written by another run of the session.
C5_RunsSerialized ==
    \A r \in Active :
        (InFlight(runs[r]) /\ ~runs[r].stale) =>
            /\ store[runs[r].sess].exists
            /\ store[runs[r].sess].values = runs[r].state
            /\ \A q \in Active \ {r} : InFlight(runs[q]) => runs[q].sess # runs[r].sess

\* C6: the step of assemble leaves exactly the three files in the project
\* directory, each holding its draft when the draft is non-empty and the fixed
\* placeholder of that file when the draft is None or empty.
C6_AssembleWritesThree ==
    [][\A r \in Requests :
          (runs[r].pc = "assemble_and_create" /\ runs'[r].pc # "assemble_and_create") =>
              /\ projectDir'
              /\ DOMAIN files' = {"index.html", "styles.css", "app.js"}
              /\ \A f \in FileNames :
                    LET draft == runs[r].state[DraftKey[f]]
                    IN IF draft.isNone \/ draft.text = <<>>
                       THEN files'[f] = Placeholder[f]
                       ELSE files'[f] = draft.text
              /\ runs'[r].final_code = files']_vars

\* C6 witness: assemble has run with an empty CSS draft and a non-empty HTML
\* draft; the directory holds the placeholder for the one and the draft for
\* the other.
C6_Witness ==
    \E r \in Active :
        /\ runs[r].pc = "returned"
        /\ runs[r].state.generated_css = Some(<<>>)
        /\ Truthy(runs[r].state.generated_html)
        /\ projectDir
        /\ DOMAIN files = FileNames
        /\ files["styles.css"] = Placeholder["styles.css"]
        /\ files["index.html"] = runs[r].state.generated_html.text

\* C7 as stated: the assistant turn is the 'applied the updates' text if and
\* only if the project path was set before the run began, and the 'created a
\* new project' text otherwise.
C7_ReplyByPathBeforeRun ==
    \A r \in Active :
        runs[r].pc = "returned" =>
            runs[r].response.response =
                IF Truthy(PathBefore(r)) THEN AppliedMsg ELSE CreatedMsg

CanonicalPath == PathJoin(WorkspaceDir, FixedProjectName)

DraftKeys == {"generated_html", "generated_css", "generated_js"}

C9_DeleteRemovesSnapshot ==
    \A s \in cleared :
        (\A r \in Active : InFlight(runs[r]) => runs[r].sess # s) => ~store[s].exists

IsPrefix(a, b) == Len(a) <= Len(b) /\ SubSeq(b, 1, Len(a)) = a

\* C10: every write to a session's persisted state that is not a delete is the
\* write of a run of that session, and the turns it persists extend the turns
\* the session had persisted when that run began; the last write of a
\* successful run persists exactly those turns followed by the submitted user
\* message and one assistant reply.
C10_TurnsAppendOnly ==
    [][\A s \in Sessions :
          (store'[s] # store[s] /\ store'[s].exists) =>
              \E r \in Requests :
                  /\ runs'[r].sess = s
                  /\ store'[s].values = runs'[r].state
                  /\ IsPrefix(runs'[r].pre.values.messages, store'[s].values.messages)
                  /\ runs'[r].pc = "returned" =>
                        \E m \in Messages(s) : \E reply \in {AppliedMsg, CreatedMsg} :
                            store'[s].values.messages =
                                runs'[r].pre.values.messages
                                    \o <<HumanMessage(<<m>>), AIMessage(reply)>>]_vars

\* C10 witness: a second successful run of a session has returned; the turns
\* it loaded were not empty and it persisted them with two more.
C10_Witness ==
    \E r \in Active :
        /\ runs[r].pc = "returned"
        /\ Len(runs[r].pre.values.messages) >= 2
        /\ runs[r].pre.values.messages[Len(runs[r].pre.values.messages)].role = "assistant"
        /\ store[runs[r].sess].values.messages = runs[r].state.messages
        /\ Len(runs[r].state.messages) = Len(runs[r].pre.values.messages) + 2

\* C11 as stated: the state a run of a session starts from, before the new
\* user message is merged, is the final state persisted by the previous
\* successful run of the session: the checkpoint it loaded, if any, is one that
\* closed a run.
C11_StartsFromLastSuccessfulRun ==
    \A r \in Active : runs[r].pre.exists => runs[r].pre.next = "END"

CreateOrder ==
    <<"router", "generate_html_from_scratch", "generate_css_from_scratch",
      "generate_js_from_scratch", "assemble_and_create">>

OnCreatePath(run) == run.route = "generate_html_from_scratch"

\* The step in which request r runs node.
StepOf(r, node) == runs[r].pc = node /\ runs'[r].pc # node

\* C12: on the create path the stages run once each in the order router,
\* create_html, create_css, create_js, assemble and then the run returns; each
\* generation stage calls the Generation Client once, three calls in a run
\* that returns; the prompt of the CSS stage holds the HTML draft that the HTML
\* stage of this run stored, and the prompt of the JS stage the HTML and CSS
\* drafts stored by this run, which the later stages leave alone.
C12_CreatePathOrder ==
    /\ [](\A r \in Active :
            OnCreatePath(runs[r]) =>
                /\ IsPrefix(runs[r].order, CreateOrder)
                /\ InFlight(runs[r]) =>
                      /\ runs[r].pc = CreateOrder[Len(runs[r].order) + 1]
                      /\ runs[r].calls = Len(runs[r].order) - 1
                /\ runs[r].pc = "returned" =>
                      (runs[r].order = CreateOrder /\ runs[r].calls = 3)
                /\ runs[r].pc = "generate_js_from_scratch" =>
                      /\ runs[r].prompt.node = "generate_css_from_scratch"
                      /\ runs[r].prompt.html = runs[r].state.generated_html
                /\ runs[r].pc = "assemble_and_create" =>
                      /\ runs[r].prompt.node = "generate_js_from_scratch"
                      /\ runs[r].prompt.html = runs[r].state.generated_html
                      /\ runs[r].prompt.css = runs[r].state.generated_css)
    /\ [][\A r \in Requests :
            /\ StepOf(r, "generate_html_from_scratch") /\ runs'[r].pc # "error" =>
                  \E raw \in ProviderTexts(runs[r].sess) :
                      runs'[r].state.generated_html = Some(_generate_code(raw))
            /\ StepOf(r, "generate_css_from_scratch") =>
                  runs'[r].state.generated_html = runs[r].state.generated_html
            /\ StepOf(r, "generate_js_from_scratch") =>
                  /\ runs'[r].state.generated_html = runs[r].state.generated_html
                  /\ runs'[r].state.generated_css = runs[r].state.generated_css]_vars

\* C12 witness: a run on the create path has returned in a session whose
\* loaded snapshot held an HTML draft of an earlier run that differs from the
\* one this run generated.
C12_Witness ==
    \E r \in Active :
        /\ OnCreatePath(runs[r])
        /\ runs[r].pc = "returned"
        /\ runs[r].order = CreateOrder
        /\ ~runs[r].pre.values.generated_html.isNone
        /\ runs[r].pre.values.generated_html # runs[r].state.generated_html

EditOrder ==
    <<"router", "load_existing_project", "retrieve_context", "edit_html", "edit_css",
      "edit_js", "assemble_and_create">>

OnEditPath(run) == run.route = "load_existing_project"

\* The stages of the edit path run once each, in order, and the prompts of
\* edit_css and edit_js hold the drafts the edit stages before them stored.
EditStagesInOrder ==
    \A r \in Active :
        OnEditPath(runs[r]) =>
            /\ IsPrefix(runs[r].order, EditOrder)
            /\ InFlight(runs[r]) => runs[r].pc = EditOrder[Len(runs[r].order) + 1]
            /\ runs[r].pc = "returned" => runs[r].order = EditOrder
            /\ runs[r].pc = "edit_js" =>
                  /\ runs[r].prompt.node = "edit_css"
                  /\ runs[r].prompt.html = runs[r].state.generated_html
            /\ runs[r].pc = "assemble_and_create" =>
                  /\ runs[r].prompt.node = "edit_js"
                  /\ runs[r].prompt.html = runs[r].state.generated_html
                  /\ runs[r].prompt.css = runs[r].state.generated_css

\* From load_project on, a draft changes only in its own edit stage, and the
\* document that stage is asked to modify is the draft as it stood until then.
EditStagesModifyLoaded(r) ==
    /\ StepOf(r, "retrieve_context") =>
          \A k \in DraftKeys : runs'[r].state[k] = runs[r].state[k]
    /\ \A f \in FileNames :
          LET node == CASE f = "index.html" -> "edit_html"
                        [] f = "styles.css" -> "edit_css"
                        [] f = "app.js" -> "edit_js"
          IN StepOf(r, node) =>
                /\ runs'[r].pc # "error" =>
                      runs'[r].prompt.existing = runs[r].state[DraftKey[f]]
                /\ \A k \in DraftKeys \ {DraftKey[f]} :
                      runs'[r].state[k] = runs[r].state[k]

\* C13 as stated: on the edit path the stages run once each in the order
\* router, load_project, retrieve_context, edit_html, edit_css, edit_js,
\* assemble and then the run returns; the prompt of edit_css holds the HTML
\* draft edit_html stored and the prompt of edit_js the HTML and CSS drafts
\* edit_html and edit_css stored; the document each edit stage is asked to
\* modify is the one load_project read from the project directory in this run.
C13_EditPathOrder ==
    /\ []EditStagesInOrder
    /\ [][\A r \in Requests :
            /\ StepOf(r, "load_existing_project") /\ runs'[r].pc # "error" =>
                  \A f \in FileNames :
                      runs'[r].state[DraftKey[f]] = Some(read_file_content(f))
            /\ EditStagesModifyLoaded(r)]_vars

\* C13 amended: the same order and the same reads; the document each edit
\* stage is asked to modify is the one load_project stored in this run, which
\* is the file read from the project directory when load_project found the
\* directory and None when it found it missing.
C13_EditPathOrderLoaded ==
    /\ []EditStagesInOrder
    /\ [][\A r \in Requests :
            /\ StepOf(r, "load_existing_project") /\ runs'[r].pc # "error" =>
                  LET path == runs[r].state.current_project_path
                      found == Truthy(path) /\ path.text = CanonicalPath /\ projectDir
                  IN \A f \in FileNames :
                        runs'[r].state[DraftKey[f]] =
                            IF found THEN Some(read_file_content(f)) ELSE None
            /\ EditStagesModifyLoaded(r)]_vars

\* C13 witness: a run on the edit path whose load_project read the directory
\* has run edit_js, which was asked to modify a script that differs both from
\* the one the session had persisted and from the one edit_js stored.
C13_Witness ==
    \E r \in Active :
        /\ OnEditPath(runs[r])
        /\ ~runs[r].loadMissing
        /\ runs[r].pc = "assemble_and_create"
        /\ runs[r].prompt.node = "edit_js"
        /\ ~runs[r].prompt.existing.isNone
        /\ runs[r].prompt.existing # runs[r].state.generated_js
        /\ runs[r].prompt.existing # runs[r].pre.values.generated_js

\* C14: every step of a run other than the step of assemble, from the start of
\* the run on, leaves the project directory and its files as they are; a run
\* that ends with an exception of the Generation Client ("model not loaded"
\* included) has not run assemble.
C14_AbortLeavesFiles ==
    /\ [][\A r \in Requests :
            (/\ runs'[r].order # runs[r].order \/ runs[r].pc = "idle"
             /\ runs'[r] # runs[r]
             /\ runs[r].pc # "assemble_and_create") =>
                UNCHANGED <<projectDir, files>>]_vars
    /\ [](\A r \in Active :
            (/\ runs[r].pc = "error"
             /\ runs[r].response.response \in
                    {<<"ModelNotLoadedError">>, <<"GenerationError">>}) =>
                "assemble_and_create" \notin runs[r].executed)

\* C14 witness: with the three files of an earlier run on disk, a run has
\* aborted in a stage before assemble.
C14_Witness ==
    \E r \in Active :
        /\ runs[r].pc = "error"
        /\ "assemble_and_create" \notin runs[r].executed
        /\ Len(runs[r].order) >= 2
        /\ projectDir
        /\ DOMAIN files = FileNames

\* C15: in every persisted snapshot of every session the project path is None
\* or generated_apps/current_project; a run that has returned holds, and has
\* persisted and answered, that path and its base name current_project,
\* whatever its session and message.
C15_SingleProjectPath ==
    /\ \A s \in Sessions :
          store[s].values.current_project_path
              \in {None, Some(<<"generated_apps", "current_project">>)}
    /\ \A r \in Active :
          runs[r].pc = "returned" =>
              /\ runs[r].state.current_project_path
                    = Some(<<"generated_apps", "current_project">>)
              /\ runs[r].state.project_name = Some(<<"current_project">>)
              /\ runs[r].state.project_name
                    = Some(Basename(runs[r].state.current_project_path.text))
              /\ runs[r].response.project_path = runs[r].state.current_project_path
              /\ runs[r].response.project_name = runs[r].state.project_name

\* C15 witness: runs of both sessions have returned and both snapshots hold
\* the same project path.
C15_Witness ==
    /\ \A s \in Sessions :
          /\ store[s].exists
          /\ store[s].next = "END"
          /\ ~store[s].values.current_project_path.isNone
    /\ \E r \in Active : runs[r].pc = "returned"

\* C16: the step of retrieve_context always hands the run on to edit_html;
\* the context it stores is never None: it is the empty string when the agent
\* has no Context Retriever (no query is made) or the query raised, and
\* otherwise the newline-join of at most 3 of the most similar snippets, found
\* with the latest user message as the query.
C16_RetrievalNeverAborts ==
    /\ [](\A r \in Active :
            runs[r].pc = "edit_html" =>
                LET context == runs[r].state.retrieved_context
                IN /\ ~context.isNone
                   /\ \E k \in 0..3 : context.text = Join(SubSeq(Collection, 1, k))
                   /\ ~agent.embedding_manager =>
                         (context.text = <<>> /\ runs[r].prompt = NoPrompt)
                   /\ agent.embedding_manager =>
                         /\ runs[r].prompt.node = "retrieve_context"
                         /\ runs[r].prompt.user_message = user_message(runs[r].state))
    /\ [][\A r \in Requests :
            StepOf(r, "retrieve_context") => runs'[r].pc = "edit_html"]_vars

\* C16 witness: a run of an agent without Context Retriever has passed
\* retrieve_context with an empty context and is about to run edit_html.
C16_Witness ==
    \E r \in Active :
        /\ ~agent.embedding_manager
        /\ runs[r].pc = "edit_html"
        /\ runs[r].order = <<"router", "load_existing_project", "retrieve_context">>
        /\ runs[r].state.retrieved_context = Some(<<>>)

\* C17: for every session, with or without persisted state, neither of two
\* calls of clear_session_state in a row raises, and the second leaves the
\* state database as the first left it.
C17_ClearTwice ==
    \A s \in Sessions :
        LET first == ClearSessionState(agent, store, s)
            second == ClearSessionState(agent, first.store, s)
        IN /\ ~first.raised
           /\ ~second.raised
           /\ second.store = first.store

\* C17 witness: clear_session_state was called for a session that a
\* successful run had persisted, and another session has no persisted state.
C17_Witness ==
    /\ \E s \in cleared : store[s].next = "END"
    /\ \E s \in Sessions : ~store[s].exists

\* C18: in every state the agent reaches through initialize, shutdown and
\* build_graph calls in any order: build_graph on an agent that holds a graph
\* changes nothing, and no step replaces a graph the agent holds by another;
\* shutdown leaves no graph and the checkpointer's connection closed; and the
\* initialize that follows a shutdown opens a connection that was not open,
\* keeps it as the agent's checkpointer and compiles the graph with it.
C18_Lifecycle ==
    /\ [](/\ agent.graph.compiled => build_graph(agent) = agent
          /\ LET down == AgentShutdown(agent, conns)
             IN /\ down.agent.graph = NoGraph
                /\ agent.memory_cm \notin down.conns
                /\ \A embedding_manager \in BOOLEAN :
                      LET up == AgentInitialize(down.agent, down.conns, embedding_manager)
                      IN /\ up.agent.memory_cm \notin down.conns
                         /\ up.agent.memory_cm \in up.conns
                         /\ up.agent.memory = up.agent.memory_cm
                         /\ up.agent.graph.compiled
                         /\ up.agent.graph.checkpointer = up.agent.memory)
    /\ [][/\ (agent.graph.compiled /\ agent'.graph.compiled) => agent'.graph = agent.graph
          /\ (agent.graph.compiled /\ ~agent'.graph.compiled) =>
                (agent.memory_cm \notin conns' /\ agent'.graph = NoGraph)
          /\ (~agent.graph.compiled /\ agent'.graph.compiled /\ conns' # conns) =>
                /\ agent'.memory_cm \in conns' \ conns
                /\ agent'.graph.checkpointer = agent'.memory_cm]_vars

\* C18 witness: the agent was initialized twice, shut down, and initialized
\* again: an older connection is still open, and the agent holds a graph
\* compiled with its newest checkpointer, which is open.
C18_Witness ==
    /\ agent.graph.compiled
    /\ agent.graph.checkpointer = agent.memory_cm
    /\ agent.memory_cm \in conns
    /\ conns # {agent.memory_cm}

\* The exceptions a chat request can end with, by the text the handler reports.
ErrorClasses == {<<"ModelNotLoadedError">>, <<"GenerationError">>, <<"StoreError">>}

\* C19: a chat request that is over has exactly one of two outcomes. An error
\* carries one of the known exceptions and no project. A success payload
\* carries the content of the assistant turn that the assemble stage of this
\* run appended last to the turns, which is one of the two replies of assemble
\* and never the fallback text or empty, together with the path
\* generated_apps/current_project and the project name.  A request still in
\* flight has no outcome.
C19_ChatOutcome ==
    \A r \in Active :
        LET run == runs[r]
            turns == run.state.messages
        IN /\ InFlight(run) => run.response = NoResponse
           /\ run.pc = "error" =>
                 /\ run.response.status = "error"
                 /\ run.response.response \in ErrorClasses
                 /\ run.response.project_path = None
           /\ run.pc = "returned" =>
                 /\ run.response.status = "ok"
                 /\ run.order[Len(run.order)] = "assemble_and_create"
                 /\ turns[Len(turns)].role = "assistant"
                 /\ Len(turns) = Len(run.pre.values.messages) + 2
                 /\ turns[Len(turns) - 1].role = "user"
                 /\ run.response.response = turns[Len(turns)].content
                 /\ run.response.response \in {AppliedMsg, CreatedMsg}
                 /\ run.response.response \notin {<<"I'm ready.">>, <<>>}
                 /\ run.response.project_path = Some(<<"generated_apps", "current_project">>)
                 /\ run.response.project_name = Some(<<"current_project">>)

\* C19 witness: one request has returned its success payload and another has
\* ended with an error.
C19_Witness ==
    \E r, q \in Active :
        /\ runs[r].pc = "returned"
        /\ runs[r].response.status = "ok"
        /\ runs[q].pc = "error"
        /\ runs[q].response.status = "error"

\* C20: an initialize of the Generation Client that fails leaves no model;
\* while there is no model, every call of generate ends the run with "model
\* not loaded" and does not reach the provider; and a model appears only in a
\* step that runs initialize again (/api/clear) and in which it goes through.
C20_NotReadyFailsFast ==
    /\ [](LLMInitialize(TRUE) = FALSE)
    /\ [][/\ \A r \in Requests :
                (~llm_model /\ runs'[r].calls = runs[r].calls + 1) =>
                    /\ runs'[r].pc = "error"
                    /\ runs'[r].response = ErrorResponse("ModelNotLoadedError")
                    /\ runs'[r].provider_calls = runs[r].provider_calls
          /\ (~llm_model /\ llm_model') =>
                /\ \E s \in Sessions : clear_session(s)
                /\ llm_model' = LLMInitialize(FALSE)]_vars

\* C20 witness: the Generation Client has no model and a run has ended at its
\* first generation stage with "model not loaded", the provider not called.
C20_Witness ==
    /\ ~llm_model
    /\ \E r \in Active :
          /\ runs[r].pc = "error"
          /\ runs[r].response = ErrorResponse("ModelNotLoadedError")
          /\ runs[r].calls = 1
          /\ runs[r].provider_calls = 0

\* C21 as stated: the prompt that each of edit_html, edit_css and edit_js
\* sends holds the latest user message, the document to modify and the
\* retrieved context of the run.
C21_EditPromptsHoldContext ==
    \A r \in Active :
        runs[r].prompt.node \in {"edit_html", "edit_css", "edit_js"} =>
            /\ runs[r].prompt.user_message = user_message(runs[r].state)
            /\ runs[r].prompt.existing # NotInPrompt
            /\ runs[r].prompt.context = runs[r].state.retrieved_context

\* C22 as stated: once a run in which load_project found the project
\* directory missing is over, and its last checkpoint is the latest of its
\* session, the router sends the next run of the session, which starts from
\* that checkpoint, to the create flow.
C22_MissingProjectForcesCreate ==
    \A r \in Active :
        (/\ runs[r].loadMissing
         /\ runs[r].pc \in {"returned", "error"}
         /\ store[runs[r].sess].exists
         /\ store[runs[r].sess].values = runs[r].state) =>
            \A m \in Messages(runs[r].sess) :
                RouterEdge(ApplyUpdate(store[runs[r].sess].values,
                                       [messages |-> <<HumanMessage(<<m>>)>>,
                                        thread_id |-> Some(<<runs[r].sess>>)]))
                    = "generate_html_from_scratch"

\* C23: whatever the interleaving of the runs, the project directory holds no
\* file or the three files, and every step that changes a file either removes
\* them all or is the step of one run's assemble, after which the three files
\* are the final_code of that run; so the files never hold the draft of one
\* session next to the draft of another.
C23_FilesOfOneAssemble ==
    /\ [](/\ DOMAIN files \in {{}, FileNames}
          /\ \A f, g \in DOMAIN files :
                ~(Body["A"] \in Tokens(files[f]) /\ Body["B"] \in Tokens(files[g])))
    /\ [][files' # files =>
             \/ DOMAIN files' = {}
             \/ \E r \in Requests :
                   /\ StepOf(r, "assemble_and_create")
                   /\ files' = FinalCode(runs[r].state)
                   /\ files' = runs'[r].final_code]_vars

\* C23 witness: a run of one session has written the three files and
\* returned while a run of the other session is about to run assemble over
\* them.
C23_Witness ==
    \E r, q \in Active :
        /\ runs[r].sess = "A"
        /\ runs[q].sess = "B"
        /\ runs[r].pc = "assemble_and_create"
        /\ runs[q].pc = "returned"
        /\ DOMAIN files = FileNames
        /\ \A f \in FileNames : files[f] = runs[q].final_code[f]
        /\ \E f \in FileNames : Body["B"] \in Tokens(files[f])

\* C24: whenever the agent holds a graph compiled with a Session State Store,
\* that store is open, and no request runs on a graph whose store has been
\* closed, whatever the order of initialize, shutdown, process_message and
\* clear_session_state.
C24_GraphBoundToOpenStore ==
    /\ (agent.graph.compiled /\ agent.graph.checkpointer # 0) =>
           agent.graph.checkpointer \in conns
    /\ \A r \in Requests : runs[r].pc # "idle" => ~runs[r].stale

\* The persisted state a run loaded holds the reply of a successful run: the
\* session has completed a run and its state has not been deleted since.
LoadedAfterSuccess(run) ==
    /\ run.pre.exists
    /\ \E i \in 1..Len(run.pre.values.messages) :
           run.pre.values.messages[i].role = "assistant"

\* C25: once a session has completed a successful run, every later run of the
\* session (until its state is deleted) leaves the router toward load_project
\* and never toward create_html, whatever happened to the project directory.
C25_AfterSuccessAlwaysLoads ==
    \A r \in Active :
        LoadedAfterSuccess(runs[r]) =>
            /\ runs[r].pc # "generate_html_from_scratch"
            /\ "generate_html_from_scratch" \notin runs[r].executed

\* C26: clearing session S changes only S: the persisted turns, drafts and
\* project pointer of every other session T are the same before and after
\* clear_session_state(S) and before and after an /api/clear request for S.
C26_ClearChangesOnlyThatSession ==
    [][\A s \in Sessions :
          (clear_session_state(s) \/ clear_session(s)) =>
              \A t \in Sessions \ {s} : store'[t] = store[t]]_vars

====
